---- MODULE Spec2Model ----
(***************************************************************************)
(* Model of the "Inercia Alcista" sector rotation program:                 *)
(*   src/inercia.py       indicator, live ranking, rotational backtest     *)
(*   src/telegram_bot.py  send_results (publishes the live ranking)        *)
(*                                                                         *)
(* Dates are month numbers 0, 1, 2, ...  A monthly DataFrame is a record   *)
(* [ok, start, bars]: ok = FALSE is the None that                          *)
(* descargar_datos_mensuales returns, start is the month of the first row  *)
(* and bars the rows (High, Low, Close), one per consecutive month.        *)
(*                                                                         *)
(* Floating point values are modelled as exact rationals <<n, d>> in       *)
(* lowest terms with d > 0, extended as IEEE does with NaN = <<0, 0>>,     *)
(* +inf = <<1, 0>> and -inf = <<-1, 0>>.                                    *)
(*                                                                         *)
(* Spec     one run of the program: the live ranking, or one call of      *)
(*          ejecutar_backtest with top_n = 2 or 3.                         *)
(* SpecLook two calls of ejecutar_backtest side by side, on data that      *)
(*          agree up to a month and differ after it.                       *)
(***************************************************************************)
EXTENDS Integers, Sequences, FiniteSets, TLC

\* ------------------------------------------------------------ bounds
\* Number of instruments of the universe that are modelled (a prefix of ETFS).
NumETFs == 3
\* Number of months of the longest monthly series (months 0 .. MaxMonths-1).
MaxMonths == 18

\* ------------------------------------------------- program constants
AllETFS == <<"XLK", "XLV", "XLF", "XLY", "XLC", "XLI", "XLP", "XLE", "XLU", "XLRE", "XLB", "IEF">>
ETFS == SubSeq(AllETFS, 1, NumETFs)
BENCHMARK == "SPY"
N == 8
M == 10
ATRPeriod == 14
HistoryMonths == 14
MinLiveBars == 15
InitialNAV == 100
TopShown == 2

ETFSet == {ETFS[j] : j \in 1..Len(ETFS)}

\* Position of a ticker in the configured universe list.
Pos(ticker) == CHOOSE j \in 1..Len(ETFS) : ETFS[j] = ticker

\* ------------------------------------------------- float arithmetic
Abs(x) == IF x < 0 THEN -x ELSE x

Sign(x) == IF x > 0 THEN 1 ELSE IF x < 0 THEN -1 ELSE 0

RECURSIVE GCD(_, _)
GCD(a, b) == IF b = 0 THEN a ELSE GCD(b, a % b)

NaN == <<0, 0>>

\* The float n/d (IEEE: x/0 is +-inf, 0/0 is NaN).
Rat(n, d) ==
    IF d = 0 THEN <<Sign(n), 0>>
    ELSE LET g == GCD(Abs(n), Abs(d))
         IN  <<Sign(d) * (n \div g), Abs(d) \div g>>

Num(x) == <<x, 1>>

IsNaN(x) == x[1] = 0 /\ x[2] = 0

IsFinite(x) == x[2] > 0

RNeg(x) == <<-x[1], x[2]>>

RAdd(x, y) ==
    IF IsNaN(x) \/ IsNaN(y) THEN NaN
    ELSE IF IsFinite(x) /\ IsFinite(y) THEN Rat(x[1] * y[2] + y[1] * x[2], x[2] * y[2])
    ELSE IF IsFinite(x) THEN y
    ELSE IF IsFinite(y) THEN x
    ELSE IF x = y THEN x ELSE NaN

RSub(x, y) == RAdd(x, RNeg(y))

RMul(x, y) ==
    IF IsNaN(x) \/ IsNaN(y) THEN NaN
    ELSE IF IsFinite(x) /\ IsFinite(y) THEN Rat(x[1] * y[1], x[2] * y[2])
    ELSE <<Sign(x[1]) * Sign(y[1]), 0>>

RDiv(x, y) ==
    IF IsNaN(x) \/ IsNaN(y) THEN NaN
    ELSE IF IsFinite(x) /\ IsFinite(y) THEN Rat(x[1] * y[2], x[2] * y[1])
    ELSE IF IsFinite(x) THEN Num(0)
    ELSE IF IsFinite(y) THEN <<x[1] * (IF y[1] < 0 THEN -1 ELSE 1), 0>>
    ELSE NaN

RAbs(x) == <<Abs(x[1]), x[2]>>

\* x < y on finite floats a/b, c/d (b, d > 0), compared exactly by continued
\* fractions so that no product leaves the integer range.
RECURSIVE FracLess(_, _, _, _)
FracLess(a, b, c, d) ==
    LET qa == a \div b
        qc == c \div d
        ra == a % b
        rc == c % d
    IN  IF qa # qc THEN qa < qc
        ELSE IF rc = 0 THEN FALSE
        ELSE IF ra = 0 THEN TRUE
        ELSE FracLess(d, rc, b, ra)

\* x < y as floats: FALSE whenever an operand is NaN.
RLess(x, y) ==
    IF IsNaN(x) \/ IsNaN(y) THEN FALSE
    ELSE IF ~IsFinite(x) THEN x[1] < 0 /\ y # x
    ELSE IF ~IsFinite(y) THEN y[1] > 0
    ELSE FracLess(x[1], x[2], y[1], y[2])

RGreater(x, y) == RLess(y, x)

\* max(a, b) of Python on floats: b if b > a else a.
PyMax(a, b) == IF RGreater(b, a) THEN b ELSE a

\* round(x, 2): the nearest multiple of 1/100 (half to even); NaN and the
\* infinities round to themselves.
Round2(x) ==
    IF ~IsFinite(x) THEN x
    ELSE LET s  == 100 * x[1]
             q  == s \div x[2]
             r2 == 2 * (s % x[2])
             h  == IF r2 > x[2] THEN q + 1
                   ELSE IF r2 < x[2] THEN q
                   ELSE IF q % 2 = 0 THEN q ELSE q + 1
         IN  Rat(h, 100)

\* ------------------------------------------------------- pandas Series
\* A Series is a sequence of floats aligned with the rows of its DataFrame.
\* serie.shift(n): row j holds the value of row j - n, NaN when there is none.
Shift(serie, n) ==
    [j \in 1..Len(serie) |-> IF j - n >= 1 /\ j - n <= Len(serie) THEN serie[j - n] ELSE NaN]

RECURSIVE SumRange(_, _, _)
SumRange(serie, lo, hi) ==
    IF lo > hi THEN Num(0) ELSE RAdd(serie[lo], SumRange(serie, lo + 1, hi))

\* Mutant of RollingMean: the mean of the rows at hand while the window is
\* not full (rolling(window, min_periods=1)).
RollingMeanPartial(serie, window) ==
    [j \in 1..Len(serie) |->
        IF j < window THEN RDiv(SumRange(serie, 1, j), Num(j))
        ELSE RDiv(SumRange(serie, j - window + 1, j), Num(window))]

\* serie.rolling(window).mean(): NaN until the window is full, NaN when the
\* window holds a NaN.
RollingMean(serie, window) ==
    [j \in 1..Len(serie) |->
        IF j < window THEN NaN
        ELSE RDiv(SumRange(serie, j - window + 1, j), Num(window))]

\* max over the non-NaN values of a row (DataFrame.max(axis=1) skips NaN).
RowMax3(a, b, c) ==
    LET vals == {v \in {a, b, c} : ~IsNaN(v)}
    IN  IF vals = {} THEN NaN
        ELSE CHOOSE v \in vals : \A w \in vals : ~RGreater(w, v)

High(df) == [j \in 1..Len(df.bars) |-> Num(df.bars[j].h)]

Low(df) == [j \in 1..Len(df.bars) |-> Num(df.bars[j].l)]

Close(df) == [j \in 1..Len(df.bars) |-> Num(df.bars[j].c)]

\* Mutant of calcular_atr: the true range is taken against the next close
\* (close.shift(-1)) in place of the previous one.
calcular_atr_next_close(high, low, close, period) ==
    LET next == Shift(close, -1)
        true_range == [j \in 1..Len(close) |->
                          RowMax3(RSub(high[j], low[j]),
                                  RAbs(RSub(high[j], next[j])),
                                  RAbs(RSub(low[j], next[j])))]
    IN  RollingMean(true_range, period)

calcular_atr(high, low, close, period) ==
    LET prev == Shift(close, 1)
        true_range == [j \in 1..Len(close) |->
                          RowMax3(RSub(high[j], low[j]),
                                  RAbs(RSub(high[j], prev[j])),
                                  RAbs(RSub(low[j], prev[j])))]
    IN  RollingMean(true_range, period)

calcular_roc(serie, periodo) ==
    LET sh == Shift(serie, periodo)
    IN  [j \in 1..Len(serie) |-> RMul(RDiv(RSub(serie[j], sh[j]), sh[j]), Num(100))]

\* The first component of the tuple calcular_inercia_alcista returns.
calcular_inercia_alcista(df) ==
    LET close == Close(df)
        roc3  == calcular_roc(close, N)
        roc4  == calcular_roc(close, M)
        atr14 == calcular_atr(High(df), Low(df), close, ATRPeriod)
        ma14  == RollingMean(close, ATRPeriod)
    IN  [j \in 1..Len(close) |->
            LET f1 == RAdd(RMul(roc3[j], Rat(2, 5)), RMul(roc4[j], Rat(1, 5)))
                f2 == RMul(RDiv(atr14[j], ma14[j]), Rat(2, 5))
            IN  RDiv(f1, f2)]

\* df['Close'].pct_change()
PctChange(df) ==
    LET close == Close(df)
        sh    == Shift(close, 1)
    IN  [j \in 1..Len(close) |-> RSub(RDiv(close[j], sh[j]), Num(1))]

\* ------------------------------------------------------ market data
\* What descargar_datos_mensuales can hand back for one ticker: None, or a
\* monthly frame.  A frame is described by its shape: the months it
\* covers (start .. last), a close that steps from v0 to v1 at month k1 and
\* to v2 at month k2, and the half range rng of each bar (High = Close +
\* rng, Low = Close - rng).  Every bar has 0 < Low <= Close <= High.
NoneDF == [ok |-> FALSE, start |-> 0, bars |-> <<>>]

ShapeClose(sh, d) == IF d < sh.k1 THEN sh.v0 ELSE IF d < sh.k2 THEN sh.v1 ELSE sh.v2

Frame(sh) ==
    [ok    |-> TRUE,
     start |-> sh.start,
     bars  |-> [j \in 1..(sh.last - sh.start + 1) |->
                  LET c == ShapeClose(sh, sh.start + j - 1)
                  IN  [h |-> c + sh.rng, l |-> c - sh.rng, c |-> c]]]

Shape(start, last, k1, k2, v0, v1, v2, rng) ==
    [start |-> start, last |-> last, k1 |-> k1, k2 |-> k2,
     v0 |-> v0, v1 |-> v1, v2 |-> v2, rng |-> rng]

LastMonth == MaxMonths - 1

ETFShapes ==
    { Shape(0, LastMonth, 8, 99, 2, 4, 4, 1),
      Shape(0, LastMonth, 7, 16, 3, 4, 6, 1),
      Shape(0, LastMonth, 6, 15, 2, 4, 3, 1),
      Shape(3, LastMonth, 9, 99, 2, 4, 4, 1),
      Shape(0, LastMonth, 10, 99, 4, 2, 2, 1),
      Shape(0, 15, 8, 99, 2, 4, 4, 1) }

ETFFrames == {NoneDF} \cup {Frame(sh) : sh \in ETFShapes}

\* fecha in serie.index: the month of row j of a frame is df.start + j - 1.
HasDate(df, fecha) == df.ok /\ fecha >= df.start /\ fecha < df.start + Len(df.bars)

\* serie.loc[fecha] for a series aligned with df.
Loc(df, serie, fecha) == serie[fecha - df.start + 1]


BenchShapes ==
    { Shape(0, LastMonth, 9, 15, 4, 6, 3, 1),
      Shape(0, HistoryMonths + 1, 9, 15, 4, 6, 3, 1),
      Shape(0, HistoryMonths, 9, 99, 4, 6, 6, 1) }

BenchFrames == {NoneDF} \cup {Frame(sh) : sh \in BenchShapes}

LiveShapes ==
    { Shape(0, LastMonth, 8, 99, 2, 4, 4, 1),
      Shape(0, LastMonth, 10, 99, 4, 2, 2, 1),
      Shape(0, LastMonth, 10, 99, 4, 3, 3, 1),
      Shape(0, LastMonth, 99, 99, 4, 4, 4, 0),
      Shape(5, LastMonth, 8, 99, 2, 4, 4, 1) }

LiveFrames == {NoneDF} \cup {Frame(sh) : sh \in LiveShapes}

\* --------------------------------------------------------- list helpers
\* sorted(lista, key=..., reverse=True) / list.sort(key=..., reverse=True),
\* with keys[j] the key of lista[j]: descending by key, stable (equal keys
\* keep their order in lista).  Computed on the indices of lista.
\* Mutant of InsertDesc: a new element goes before the elements with an
\* equal key, as in a sort that is not stable.
RECURSIVE InsertDescUnstable(_, _, _)
InsertDescUnstable(sorted, j, keys) ==
    IF sorted = <<>> THEN <<j>>
    ELSE IF ~RLess(keys[j], keys[Head(sorted)]) THEN <<j>> \o sorted
    ELSE <<Head(sorted)>> \o InsertDescUnstable(Tail(sorted), j, keys)

RECURSIVE InsertDesc(_, _, _)
InsertDesc(sorted, j, keys) ==
    IF sorted = <<>> THEN <<j>>
    ELSE IF RGreater(keys[j], keys[Head(sorted)]) THEN <<j>> \o sorted
    ELSE <<Head(sorted)>> \o InsertDesc(Tail(sorted), j, keys)

RECURSIVE SortedIndices(_, _)
SortedIndices(n, keys) ==
    IF n = 0 THEN <<>> ELSE InsertDesc(SortedIndices(n - 1, keys), n, keys)

SortDesc(lista, keys) ==
    LET idx == SortedIndices(Len(lista), keys)
    IN  [j \in 1..Len(lista) |-> lista[idx[j]]]

\* lista[:n]
Prefix(lista, n) == SubSeq(lista, 1, IF n < Len(lista) THEN n ELSE Len(lista))

Range(lista) == {lista[j] : j \in 1..Len(lista)}

\* np.mean of a non-empty list of floats
Mean(lista) == RDiv(SumRange(lista, 1, Len(lista)), Num(Len(lista)))

\* ---------------------------------------------------------------- state
VARIABLES
    pc,                   \* position of the program
    excepcion,            \* the exception that ended the run, or "none"
    k,                    \* index of the ticker loops (download, live)
    top_n,                \* argument of ejecutar_backtest
    datos,                \* ejecutar_backtest: ticker -> monthly frame
    inercia_historica,    \* ticker -> inercia series
    returns_historico,    \* ticker -> monthly returns
    i,                    \* index of the simulation loop into fechas
    rankings,             \* the ranking of the last simulated month
    portfolio_value,
    benchmark_value,
    posiciones_actuales,
    trades_log,
    fechas_validas,
    resultado,            \* what ejecutar_backtest returns
    resultados,           \* calcular_inercia_mensual: the list being built
    ranking_vivo,         \* what calcular_inercia_mensual returns
    mensaje,              \* what send_results publishes
    corte,                \* two-run comparison: the month t the runs agree up to
    modo,                 \* two-run comparison: how the second run's data differ
    alt                   \* two-run comparison: the second run

vars == <<pc, excepcion, k, top_n, datos, inercia_historica, returns_historico, i,
          rankings, portfolio_value, benchmark_value, posiciones_actuales,
          trades_log, fechas_validas, resultado, resultados, ranking_vivo, mensaje,
          corte, modo, alt>>

btVars == <<top_n, datos, inercia_historica, returns_historico, i, rankings,
            portfolio_value, benchmark_value, posiciones_actuales, trades_log,
            fechas_validas, resultado>>

simVars == <<rankings, portfolio_value, benchmark_value, posiciones_actuales,
             trades_log, fechas_validas>>

liveVars == <<resultados, ranking_vivo, mensaje>>

lookVars == <<corte, modo, alt>>

NoAlt == [datos |-> <<>>, inercia_historica |-> <<>>, rankings |-> <<>>,
          posiciones_actuales |-> {}]

Pending == [tipo |-> "pending"]

Init ==
    /\ pc = "main"
    /\ excepcion = "none"
    /\ k = 1
    /\ top_n = 0
    /\ datos = <<>>
    /\ inercia_historica = <<>>
    /\ returns_historico = <<>>
    /\ i = 0
    /\ rankings = <<>>
    /\ portfolio_value = <<>>
    /\ benchmark_value = <<>>
    /\ posiciones_actuales = {}
    /\ trades_log = <<>>
    /\ fechas_validas = <<>>
    /\ resultado = Pending
    /\ resultados = <<>>
    /\ ranking_vivo = <<>>
    /\ mensaje = Pending
    /\ corte = 0
    /\ modo = "none"
    /\ alt = NoAlt

\* inercia.py __main__: "backtest" runs backtest_completo, which calls
\* ejecutar_backtest with top_n = 2 and with top_n = 3; anything else runs
\* the live ranking.
MainBacktest ==
    /\ pc = "main"
    /\ \E n \in {2, 3} : top_n' = n
    /\ pc' = "download"
    /\ UNCHANGED <<excepcion, k, datos, inercia_historica, returns_historico, i,
                   simVars, resultado, liveVars,
                   lookVars>>

MainLive ==
    /\ pc = "main"
    /\ pc' = "live"
    /\ UNCHANGED <<excepcion, k, btVars, liveVars,
                   lookVars>>

\* ----------------------------------------------------- ejecutar_backtest
\* ETFS + [BENCHMARK]
Tickers == ETFS \o <<BENCHMARK>>

\* if df is not None and len(df) > 0: datos[ticker] = df
Guardar(dat, ticker, df) ==
    IF df.ok /\ Len(df.bars) > 0 THEN dat @@ (ticker :> df) ELSE dat

\* One turn of the download loop: the frame of Tickers[k] is kept in datos
\* when it is not None and has rows.
Descargar ==
    /\ pc = "download"
    /\ k <= Len(Tickers)
    /\ \E df \in (IF Tickers[k] = BENCHMARK THEN BenchFrames ELSE ETFFrames) :
          datos' = Guardar(datos, Tickers[k], df)
    /\ k' = k + 1
    /\ UNCHANGED <<pc, excepcion, top_n, inercia_historica, returns_historico, i,
                   simVars, resultado, liveVars,
                   lookVars>>

\* if BENCHMARK not in datos: return None
SinBenchmark ==
    /\ pc = "download"
    /\ k > Len(Tickers)
    /\ BENCHMARK \notin DOMAIN datos
    /\ resultado' = [tipo |-> "None"]
    /\ pc' = "done"
    /\ UNCHANGED <<excepcion, k, top_n, datos, inercia_historica, returns_historico,
                   i, simVars, liveVars,
                   lookVars>>

\* fechas = benchmark_df.index[14:]
Fechas(dat) ==
    LET b == dat[BENCHMARK]
        n == Len(b.bars) - HistoryMonths
    IN  [j \in 1..(IF n > 0 THEN n ELSE 0) |-> b.start + HistoryMonths + j - 1]

InerciaHistorica(dat) ==
    [t \in DOMAIN dat \cap ETFSet |-> calcular_inercia_alcista(dat[t])]

ReturnsHistorico(dat) ==
    [t \in DOMAIN dat \cap ETFSet |-> PctChange(dat[t])]

\* The indicator and return series of every downloaded ETF, and the initial
\* state of the simulation.
Calcular ==
    /\ pc = "download"
    /\ k > Len(Tickers)
    /\ BENCHMARK \in DOMAIN datos
    /\ inercia_historica' = InerciaHistorica(datos)
    /\ returns_historico' = ReturnsHistorico(datos)
    /\ portfolio_value' = <<Num(InitialNAV)>>
    /\ benchmark_value' = <<Num(InitialNAV)>>
    /\ posiciones_actuales' = {}
    /\ trades_log' = <<>>
    /\ fechas_validas' = <<>>
    /\ i' = 0
    /\ pc' = "sim"
    /\ UNCHANGED <<excepcion, k, top_n, datos, rankings, resultado, liveVars,
                   lookVars>>

\* Score = max(0, valor) of a ticker at fecha.
Score(dat, ih, ticker, fecha) == PyMax(Num(0), Loc(dat[ticker], ih[ticker], fecha))

\* The conditions under which the ranking loop appends (ticker, score).
Elegible(dat, ih, ticker, fecha) ==
    /\ ticker \in DOMAIN ih
    /\ HasDate(dat[ticker], fecha)
    /\ ~IsNaN(Loc(dat[ticker], ih[ticker], fecha))
    /\ RGreater(Score(dat, ih, ticker, fecha), Num(0))

\* The list rankings as built by the loop over ETFS, before it is sorted.
Rankings(dat, ih, fecha) ==
    LET Test(t) == Elegible(dat, ih, t, fecha)
        sel     == SelectSeq(ETFS, Test)
    IN  [j \in 1..Len(sel) |-> <<sel[j], Score(dat, ih, sel[j], fecha)>>]

\* Mutant of SortRankings: ascending (reverse=True left out).
SortRankingsAsc(r) == SortDesc(r, [j \in 1..Len(r) |-> RNeg(r[j][2])])

\* rankings.sort(key=lambda x: x[1], reverse=True)
SortRankings(r) == SortDesc(r, [j \in 1..Len(r) |-> r[j][2]])

\* set([r[0] for r in rankings[:top_n]])
NuevosTop(r, n) == {x[1] : x \in Range(Prefix(r, n))}

\* Mutant of LogTrades: a trade is logged at every rebalanced month.
LogTradesAlways(log, fecha_siguiente, nuevos_top, posiciones) ==
    Append(log, [fecha    |-> fecha_siguiente,
                 entradas |-> nuevos_top \ posiciones,
                 salidas  |-> posiciones \ nuevos_top,
                 cartera  |-> nuevos_top])

\* A trade is logged when the holdings change.
LogTrades(log, fecha_siguiente, nuevos_top, posiciones) ==
    LET entradas == nuevos_top \ posiciones
        salidas  == posiciones \ nuevos_top
    IN  IF entradas # {} \/ salidas # {}
        THEN Append(log, [fecha    |-> fecha_siguiente,
                          entradas |-> entradas,
                          salidas  |-> salidas,
                          cartera  |-> nuevos_top])
        ELSE log

\* Mutant of RetornosMes: a held ticker without a return at fecha_siguiente
\* counts with a return of 0.
RetornosMesZeroFill(dat, rh, posiciones, fecha_siguiente) ==
    LET Test(t) == t \in posiciones
        sel     == SelectSeq(ETFS, Test)
    IN  [j \in 1..Len(sel) |->
            IF /\ sel[j] \in DOMAIN rh
               /\ HasDate(dat[sel[j]], fecha_siguiente)
               /\ ~IsNaN(Loc(dat[sel[j]], rh[sel[j]], fecha_siguiente))
            THEN Loc(dat[sel[j]], rh[sel[j]], fecha_siguiente)
            ELSE Num(0)]

\* The returns at fecha_siguiente of the held tickers that have one.
RetornosMes(dat, rh, posiciones, fecha_siguiente) ==
    LET Test(t) == /\ t \in posiciones
                   /\ t \in DOMAIN rh
                   /\ HasDate(dat[t], fecha_siguiente)
                   /\ ~IsNaN(Loc(dat[t], rh[t], fecha_siguiente))
        sel     == SelectSeq(ETFS, Test)
    IN  [j \in 1..Len(sel) |-> Loc(dat[sel[j]], rh[sel[j]], fecha_siguiente)]

RetPortfolio(retornos_mes) ==
    IF retornos_mes # <<>> THEN Mean(retornos_mes) ELSE Num(0)

RetBench(dat, fecha_siguiente) ==
    LET r == Loc(dat[BENCHMARK], PctChange(dat[BENCHMARK]), fecha_siguiente)
    IN  IF IsNaN(r) THEN Num(0) ELSE r

\* lista[-1]
Last(lista) == lista[Len(lista)]

\* The simulation loop runs over fechas[:-1].
HayMes == i + 1 < Len(Fechas(datos))

\* Mutant of MesOmitido: the skipped month is zero-filled in both NAV lists.
MesOmitidoZeroFill ==
    /\ pc = "sim"
    /\ i + 1 < Len(Fechas(datos))
    /\ LET r == Rankings(datos, inercia_historica, Fechas(datos)[i + 1])
       IN  /\ Len(r) < top_n
           /\ rankings' = r
    /\ portfolio_value' = Append(portfolio_value, portfolio_value[Len(portfolio_value)])
    /\ benchmark_value' = Append(benchmark_value, benchmark_value[Len(benchmark_value)])
    /\ i' = i + 1
    /\ UNCHANGED <<pc, excepcion, k, top_n, datos, inercia_historica,
                   returns_historico, posiciones_actuales, trades_log,
                   fechas_validas, resultado, liveVars,
                   lookVars>>

\* One turn of the simulation loop with fewer than top_n ranked tickers.
MesOmitido ==
    /\ pc = "sim"
    /\ HayMes
    /\ LET r == Rankings(datos, inercia_historica, Fechas(datos)[i + 1])
       IN  /\ Len(r) < top_n
           /\ rankings' = r
    /\ i' = i + 1
    /\ UNCHANGED <<pc, excepcion, k, top_n, datos, inercia_historica,
                   returns_historico, portfolio_value, benchmark_value,
                   posiciones_actuales, trades_log, fechas_validas, resultado,
                   liveVars,
                   lookVars>>

\* One turn of the simulation loop that rebalances.
Rebalanceo ==
    /\ pc = "sim"
    /\ HayMes
    /\ LET fecha           == Fechas(datos)[i + 1]
           fecha_siguiente == Fechas(datos)[i + 2]
           r               == Rankings(datos, inercia_historica, fecha)
           ordenado        == SortRankings(r)
           nuevos_top      == NuevosTop(ordenado, top_n)
           retornos_mes    == RetornosMes(datos, returns_historico, nuevos_top,
                                          fecha_siguiente)
       IN  /\ Len(r) >= top_n
           /\ rankings' = ordenado
           /\ fechas_validas' = Append(fechas_validas, fecha_siguiente)
           /\ trades_log' = LogTrades(trades_log, fecha_siguiente, nuevos_top,
                                      posiciones_actuales)
           /\ posiciones_actuales' = nuevos_top
           /\ portfolio_value' =
                 Append(portfolio_value,
                        RMul(Last(portfolio_value),
                             RAdd(Num(1), RetPortfolio(retornos_mes))))
           /\ benchmark_value' =
                 Append(benchmark_value,
                        RMul(Last(benchmark_value),
                             RAdd(Num(1), RetBench(datos, fecha_siguiente))))
    /\ i' = i + 1
    /\ UNCHANGED <<pc, excepcion, k, top_n, datos, inercia_historica,
                   returns_historico, resultado, liveVars,
                   lookVars>>

\* if not fechas_validas: return None
SinFechas ==
    /\ pc = "sim"
    /\ ~HayMes
    /\ fechas_validas = <<>>
    /\ resultado' = [tipo |-> "None"]
    /\ pc' = "done"
    /\ UNCHANGED <<excepcion, k, top_n, datos, inercia_historica, returns_historico,
                   i, simVars, liveVars,
                   lookVars>>

\* The columns of the DataFrame resultados: valores[1:len(fechas_validas)+1]
Columna(valores, fechas) == SubSeq(valores, 2, Len(fechas) + 1)

\* calcular_metricas: the span of the index, in months, is what años is
\* computed from; años = 0 exactly when the span is 0.
Meses(fechas) == Last(fechas) - fechas[1]

\* What calcular_metricas reads and returns (the CAGR is determined by
\* valor_inicial, valor_final and the span).
Metricas(fechas, portfolio, benchmark, log, n) ==
    [tipo            |-> "metricas",
     top_n           |-> n,
     fechas          |-> fechas,
     meses           |-> Meses(fechas),
     Portfolio       |-> portfolio,
     Benchmark       |-> benchmark,
     valor_inicial_p |-> portfolio[1],
     valor_final_p   |-> Last(portfolio),
     valor_inicial_b |-> benchmark[1],
     valor_final_b   |-> Last(benchmark),
     trades          |-> Len(log)]

\* The end of ejecutar_backtest with at least one rebalanced month:
\* calcular_metricas divides 1 by años, which raises ZeroDivisionError when
\* the index of resultados spans no time.
Terminar ==
    /\ pc = "sim"
    /\ ~HayMes
    /\ fechas_validas # <<>>
    /\ IF Meses(fechas_validas) = 0
       THEN /\ excepcion' = "ZeroDivisionError"
            /\ pc' = "error"
            /\ UNCHANGED resultado
       ELSE /\ resultado' = Metricas(fechas_validas,
                                     Columna(portfolio_value, fechas_validas),
                                     Columna(benchmark_value, fechas_validas),
                                     trades_log, top_n)
            /\ pc' = "done"
            /\ UNCHANGED excepcion
    /\ UNCHANGED <<k, top_n, datos, inercia_historica, returns_historico, i,
                   simVars, liveVars,
                   lookVars>>

\* ------------------------------------------------ calcular_inercia_mensual
\* The entry appended to resultados for a ticker (the fields the ranking
\* and the message read).
Entrada(ticker, ia_actual) ==
    [ticker  |-> ticker,
     inercia |-> Round2(ia_actual),
     score   |-> Round2(PyMax(Num(0), ia_actual))]

\* One turn of the loop over ETFS: the ticker is left out when its frame is
\* None or has fewer than 15 rows, or when its last inercia is NaN.
VivoTicker ==
    /\ pc = "live"
    /\ k <= Len(ETFS)
    /\ \E df \in LiveFrames :
          resultados' =
             IF ~df.ok \/ Len(df.bars) < MinLiveBars THEN resultados
             ELSE LET ia_actual == Last(calcular_inercia_alcista(df))
                  IN  IF IsNaN(ia_actual) THEN resultados
                      ELSE Append(resultados, Entrada(ETFS[k], ia_actual))
    /\ k' = k + 1
    /\ UNCHANGED <<pc, excepcion, btVars, ranking_vivo, mensaje,
                   lookVars>>

\* sorted(resultados, key=lambda x: x['inercia'], reverse=True)
OrdenarVivo(res) == SortDesc(res, [j \in 1..Len(res) |-> res[j].inercia])

\* return sorted(...): the end of calcular_inercia_mensual.
VivoOrdenar ==
    /\ pc = "live"
    /\ k > Len(ETFS)
    /\ ranking_vivo' = OrdenarVivo(resultados)
    /\ pc' = "formato"
    /\ UNCHANGED <<excepcion, k, btVars, resultados, mensaje,
                   lookVars>>

TickersOf(res) == [j \in 1..Len(res) |-> res[j].ticker]

\* formato_mensaje: a warning for an empty list, else one line per entry,
\* the details of the first three and the footer "Top 2" of the first two.
formato_mensaje(res) ==
    IF res = <<>> THEN [tipo |-> "aviso"]
    ELSE [tipo     |-> "ranking",
          lineas   |-> TickersOf(res),
          detalles |-> TickersOf(Prefix(res, 3)),
          top2     |-> TickersOf(Prefix(res, TopShown))]

\* send_results: the message built from the ranking is sent as it is.
Publicar ==
    /\ pc = "formato"
    /\ mensaje' = formato_mensaje(ranking_vivo)
    /\ pc' = "done"
    /\ UNCHANGED <<excepcion, k, btVars, resultados, ranking_vivo,
                   lookVars>>

Next ==
    \/ MainBacktest
    \/ MainLive
    \/ Descargar
    \/ SinBenchmark
    \/ Calcular
    \/ MesOmitido
    \/ Rebalanceo
    \/ SinFechas
    \/ Terminar
    \/ VivoTicker
    \/ VivoOrdenar
    \/ Publicar

Spec == Init /\ [][Next]_vars

\* ------------------------------------------- two runs of the backtest
\* Two runs of ejecutar_backtest side by side, on data that agree in every
\* bar dated <= corte: the second run's frames are those of the first with
\* the bars after corte either changed ("valores": High, Low and Close
\* doubled) or missing ("cortar").  Only the ranking and the holdings of the
\* runs are followed.
Cortes == {HistoryMonths, HistoryMonths + 1}

Modos == {"valores", "cortar"}

\* The bars of df dated <= t.
BarsUpTo(df, t) ==
    LET n == t - df.start + 1
    IN  SubSeq(df.bars, 1, IF n < 0 THEN 0 ELSE IF n > Len(df.bars) THEN Len(df.bars) ELSE n)

Alterar(df, t, como) ==
    IF ~df.ok THEN df
    ELSE IF como = "cortar" THEN [df EXCEPT !.bars = BarsUpTo(df, t)]
    ELSE [df EXCEPT !.bars =
             [j \in 1..Len(df.bars) |->
                 IF df.start + j - 1 <= t THEN df.bars[j]
                 ELSE [h |-> 2 * df.bars[j].h, l |-> 2 * df.bars[j].l,
                       c |-> 2 * df.bars[j].c]]]

LookShapes ==
    { Shape(0, LastMonth, 8, 99, 2, 4, 4, 1),
      Shape(0, LastMonth, 7, 16, 3, 4, 6, 1),
      Shape(0, LastMonth, 6, 15, 2, 4, 3, 1) }

LookFrames == {NoneDF} \cup {Frame(sh) : sh \in LookShapes}

LookBenchFrames == {Frame(Shape(0, LastMonth, 9, 15, 4, 6, 3, 1))}

InitLook ==
    /\ pc = "look"
    /\ excepcion = "none"
    /\ k = 1
    /\ top_n \in {2, 3}
    /\ datos = <<>>
    /\ inercia_historica = <<>>
    /\ returns_historico = <<>>
    /\ i = 0
    /\ rankings = <<>>
    /\ portfolio_value = <<>>
    /\ benchmark_value = <<>>
    /\ posiciones_actuales = {}
    /\ trades_log = <<>>
    /\ fechas_validas = <<>>
    /\ resultado = Pending
    /\ resultados = <<>>
    /\ ranking_vivo = <<>>
    /\ mensaje = Pending
    /\ corte \in Cortes
    /\ modo \in Modos
    /\ alt = NoAlt

\* The download loop of both runs; the benchmark keeps its dates in the
\* second run.
LookDescargar ==
    /\ pc = "look"
    /\ k <= Len(Tickers)
    /\ \E df \in (IF Tickers[k] = BENCHMARK THEN LookBenchFrames ELSE LookFrames) :
          LET df2 == Alterar(df, corte, IF Tickers[k] = BENCHMARK THEN "valores" ELSE modo)
          IN  /\ datos' = Guardar(datos, Tickers[k], df)
              /\ alt' = [alt EXCEPT !.datos = Guardar(alt.datos, Tickers[k], df2)]
    /\ k' = k + 1
    /\ UNCHANGED <<pc, excepcion, top_n, inercia_historica, returns_historico, i,
                   simVars, resultado, liveVars, corte, modo>>

\* The indicator series of both runs.
LookCalcular ==
    /\ pc = "look"
    /\ k > Len(Tickers)
    /\ inercia_historica' = InerciaHistorica(datos)
    /\ alt' = [alt EXCEPT !.inercia_historica = InerciaHistorica(alt.datos)]
    /\ i' = 0
    /\ pc' = "look_sim"
    /\ UNCHANGED <<excepcion, k, top_n, datos, returns_historico, simVars,
                   resultado, liveVars, corte, modo>>

\* The ranking and the holdings after one turn of the simulation loop at
\* fecha, from the holdings before it.
Turno(dat, ih, posiciones, fecha, n) ==
    LET r == Rankings(dat, ih, fecha)
    IN  IF Len(r) < n
        THEN [rankings |-> r, posiciones_actuales |-> posiciones]
        ELSE [rankings |-> SortRankings(r),
              posiciones_actuales |-> NuevosTop(SortRankings(r), n)]

\* One turn of the simulation loop in both runs.
LookMes ==
    /\ pc = "look_sim"
    /\ i + 1 < Len(Fechas(datos))
    /\ LET fecha == Fechas(datos)[i + 1]
           t1    == Turno(datos, inercia_historica, posiciones_actuales, fecha, top_n)
           t2    == Turno(alt.datos, alt.inercia_historica, alt.posiciones_actuales,
                          Fechas(alt.datos)[i + 1], top_n)
       IN  /\ rankings' = t1.rankings
           /\ posiciones_actuales' = t1.posiciones_actuales
           /\ alt' = [alt EXCEPT !.rankings = t2.rankings,
                                 !.posiciones_actuales = t2.posiciones_actuales]
    /\ i' = i + 1
    /\ UNCHANGED <<pc, excepcion, k, top_n, datos, inercia_historica,
                   returns_historico, portfolio_value, benchmark_value, trades_log,
                   fechas_validas, resultado, liveVars, corte, modo>>

NextLook ==
    \/ LookDescargar
    \/ LookCalcular
    \/ LookMes

SpecLook == InitLook /\ [][NextLook]_vars

\* ------------------------------------------------------------- claims
\* The month the last turn of the simulation loop looked at.
FechaActual == Fechas(datos)[i]

\* The last turn of the simulation loop rebalanced at FechaActual.
Rebalanceado == pc \in {"sim", "done", "error"} /\ i >= 1 /\ Len(rankings) >= top_n

\* The ETFs the ranking loop finds eligible at fecha.
Elegibles(fecha) == {t \in ETFSet : Elegible(datos, inercia_historica, t, fecha)}

\* C1 (as claimed): the NAV series of the result, portfolio and benchmark
\* column alike, has 1 + R points, R the number of rebalanced months.
C1_NavLength ==
    resultado.tipo = "metricas" =>
        /\ Len(resultado.Portfolio) = 1 + Len(fechas_validas)
        /\ Len(resultado.Benchmark) = 1 + Len(fechas_validas)

\* C3 (as claimed): in the backtest ranking and in the live ranking, of two
\* instruments with identical scores the one that comes first in ETFS is
\* ranked first.
C3_TieBreakByScore ==
    /\ \A p, q \in 1..Len(rankings) :
          (rankings[p][2] = rankings[q][2] /\ Pos(rankings[p][1]) < Pos(rankings[q][1]))
             => p < q
    /\ \A p, q \in 1..Len(ranking_vivo) :
          (/\ ranking_vivo[p].score = ranking_vivo[q].score
           /\ Pos(ranking_vivo[p].ticker) < Pos(ranking_vivo[q].ticker))
             => p < q

\* C3 (amended): of two instruments with identical sort keys, the score in
\* the backtest ranking and the rounded inercia in the live ranking, the
\* one that comes first in ETFS is ranked first.
C3_TieBreakByKey ==
    /\ \A p, q \in 1..Len(rankings) :
          (rankings[p][2] = rankings[q][2] /\ Pos(rankings[p][1]) < Pos(rankings[q][1]))
             => p < q
    /\ \A p, q \in 1..Len(ranking_vivo) :
          (/\ ranking_vivo[p].inercia = ranking_vivo[q].inercia
           /\ Pos(ranking_vivo[p].ticker) < Pos(ranking_vivo[q].ticker))
             => p < q

\* A live ranking that holds two instruments with the same rounded inercia.
C3_Witness ==
    /\ pc = "done"
    /\ mensaje # Pending
    /\ \E p, q \in 1..Len(ranking_vivo) :
          p < q /\ ranking_vivo[p].inercia = ranking_vivo[q].inercia

\* C4: a rebalanced month appends a TradeEvent exactly when the holdings
\* change, with entries = new - old and exits = old - new, and no other step
\* touches the trade log; the first rebalance is logged with entries equal
\* to the holdings and no exits.
C4_TradeLog ==
    /\ [][IF fechas_validas' # fechas_validas /\ posiciones_actuales' # posiciones_actuales
          THEN trades_log' = Append(trades_log,
                                    [fecha    |-> Last(fechas_validas'),
                                     entradas |-> posiciones_actuales' \ posiciones_actuales,
                                     salidas  |-> posiciones_actuales \ posiciones_actuales',
                                     cartera  |-> posiciones_actuales'])
          ELSE trades_log' = trades_log]_vars
    /\ [](fechas_validas # <<>> =>
            /\ trades_log # <<>>
            /\ trades_log[1].fecha = fechas_validas[1]
            /\ trades_log[1].entradas = trades_log[1].cartera
            /\ trades_log[1].salidas = {})

\* The same set has won two months or more, and one trade is logged.
C4_Witness ==
    /\ Len(fechas_validas) >= 2
    /\ Len(trades_log) = 1
    /\ posiciones_actuales = trades_log[1].entradas

\* C5 (as claimed): the NAV series reported and handed to calcular_metricas
\* starts at 100.0 for portfolio and benchmark, and that is the initial
\* value of the CAGR.
C5_InitialNav ==
    resultado.tipo = "metricas" =>
        /\ resultado.Portfolio[1] = Num(InitialNAV)
        /\ resultado.Benchmark[1] = Num(InitialNAV)
        /\ resultado.valor_inicial_p = Num(InitialNAV)
        /\ resultado.valor_inicial_b = Num(InitialNAV)

Max(a, b) == IF a > b THEN a ELSE b

\* Rows of every series that come with fewer than n earlier rows.
FewerPriorThan(serie, n) == {j \in 1..Len(serie) : j - 1 < n}

\* C6 (as claimed): the inercia is NaN at a bar with fewer than
\* ATR_period + max(N, M) = 24 earlier bars.
C6_Lookback24 ==
    \A t \in DOMAIN inercia_historica :
        \A j \in FewerPriorThan(inercia_historica[t], ATRPeriod + Max(N, M)) :
            IsNaN(inercia_historica[t][j])

\* C6 (amended): the inercia is NaN at a bar with fewer than
\* max(ATR_period - 1, N, M) = 13 earlier bars, and an instrument is not
\* ranked at such a bar, nor held after the rebalance of that month.
C6_Lookback13 ==
    /\ \A t \in DOMAIN inercia_historica :
          \A j \in FewerPriorThan(inercia_historica[t], Max(ATRPeriod - 1, Max(N, M))) :
              IsNaN(inercia_historica[t][j])
    /\ (pc = "sim" /\ i >= 1) =>
          \A x \in Range(rankings) :
              FechaActual - datos[x[1]].start >= Max(ATRPeriod - 1, Max(N, M))
    /\ Rebalanceado =>
          \A h \in posiciones_actuales :
              FechaActual - datos[h].start >= Max(ATRPeriod - 1, Max(N, M))

\* A month was rebalanced while an instrument that has a bar at that month,
\* with fewer than 13 earlier bars, was left out of the ranking.
C6_Witness ==
    /\ pc = "sim"
    /\ Rebalanceado
    /\ \E t \in DOMAIN inercia_historica :
          /\ HasDate(datos[t], FechaActual)
          /\ FechaActual - datos[t].start < Max(ATRPeriod - 1, Max(N, M))
          /\ t \notin {x[1] : x \in Range(rankings)}

\* C7 (as claimed): with instruments of the universe unavailable the run is
\* never aborted, and it ends with no result before any simulation step
\* only when the benchmark is unavailable.
C7_FailureIsolation ==
    /\ (pc = "error" /\ ETFSet \ DOMAIN datos # {}) => BENCHMARK \notin DOMAIN datos
    /\ (pc = "done" /\ resultado.tipo = "None" /\ portfolio_value = <<>>)
          => BENCHMARK \notin DOMAIN datos

\* C8 (as claimed): a live ranking with fewer entries than the top 2 the
\* message reports is signalled and not published as a shorter list.
C8_InsufficientSignalled ==
    (pc = "done" /\ mensaje # Pending /\ Len(ranking_vivo) < TopShown) =>
        /\ excepcion # "none"
        /\ mensaje.tipo # "ranking"

\* C9: a turn of the simulation loop at a month with fewer than top_n
\* eligible instruments leaves the trade log, both NAV lists, the valid
\* dates and the holdings as they were.
C9_SkippedMonthFrame ==
    [][(/\ pc = "sim"
        /\ i' = i + 1
        /\ Cardinality(Elegibles(Fechas(datos)[i + 1])) < top_n)
          => UNCHANGED <<trades_log, portfolio_value, benchmark_value,
                         fechas_validas, posiciones_actuales>>]_vars

\* A month was skipped after an earlier one had been rebalanced.
C9_Witness ==
    /\ pc = "sim"
    /\ i >= 2
    /\ Len(rankings) < top_n
    /\ fechas_validas # <<>>
    /\ posiciones_actuales # {}

\* C10: after a rebalanced month the holdings are top_n distinct universe
\* instruments, each with a defined, strictly positive score at that month,
\* and no eligible instrument left out scores strictly more than a held one.
C10_Holdings ==
    Rebalanceado =>
        /\ posiciones_actuales \subseteq ETFSet
        /\ Cardinality(posiciones_actuales) = top_n
        /\ \A h \in posiciones_actuales :
              /\ HasDate(datos[h], FechaActual)
              /\ ~IsNaN(Loc(datos[h], inercia_historica[h], FechaActual))
              /\ RGreater(Score(datos, inercia_historica, h, FechaActual), Num(0))
        /\ \A e \in Elegibles(FechaActual) \ posiciones_actuales :
              \A h \in posiciones_actuales :
                  ~RGreater(Score(datos, inercia_historica, e, FechaActual),
                            Score(datos, inercia_historica, h, FechaActual))

\* A month was rebalanced with more eligible instruments than top_n, one of
\* them scoring strictly less than every held one.
C10_Witness ==
    /\ Rebalanceado
    /\ \E e \in Elegibles(FechaActual) \ posiciones_actuales :
          \A h \in posiciones_actuales :
              RLess(Score(datos, inercia_historica, e, FechaActual),
                    Score(datos, inercia_historica, h, FechaActual))

\* The score of a ticker at fecha as the ranking loop sees it: NaN stands
\* for no score (no data, no bar at fecha, or an inercia that is NaN).
ScoreAt(dat, ih, ticker, fecha) ==
    IF /\ ticker \in DOMAIN ih
       /\ HasDate(dat[ticker], fecha)
       /\ ~IsNaN(Loc(dat[ticker], ih[ticker], fecha))
    THEN Score(dat, ih, ticker, fecha)
    ELSE NaN

\* C2: two runs whose data agree in every bar dated <= corte have, at every
\* simulated month up to corte, the same score for every instrument, and
\* after the turn of such a month the same ranking and the same holdings.
C2_NoLookahead ==
    pc = "look_sim" =>
        /\ \A j \in 1..Len(Fechas(datos)) :
              Fechas(datos)[j] <= corte =>
                 \A t \in ETFSet :
                    ScoreAt(datos, inercia_historica, t, Fechas(datos)[j])
                       = ScoreAt(alt.datos, alt.inercia_historica, t, Fechas(datos)[j])
        /\ (i >= 1 /\ FechaActual <= corte) =>
              /\ rankings = alt.rankings
              /\ posiciones_actuales = alt.posiciones_actuales

\* Both runs have rebalanced at corte, holding an instrument whose bars
\* after corte differ between the runs.
C2_Witness ==
    /\ pc = "look_sim"
    /\ i >= 1
    /\ FechaActual = corte
    /\ Len(rankings) >= top_n
    /\ \E t \in posiciones_actuales : datos[t] # alt.datos[t]

\* The close of a ticker at a month of its frame.
CloseAt(t, fecha) == datos[t].bars[fecha - datos[t].start + 1].c

\* A ticker has a return over (fecha - 1, fecha]: its frame has a bar at
\* fecha and a bar before it.
RetornoDefinido(t, fecha) ==
    /\ t \in DOMAIN datos
    /\ HasDate(datos[t], fecha)
    /\ HasDate(datos[t], fecha - 1)

\* The close-to-close return of a ticker over (fecha - 1, fecha].
RetornoRealizado(t, fecha) ==
    Rat(CloseAt(t, fecha) - CloseAt(t, fecha - 1), CloseAt(t, fecha - 1))

RECURSIVE SumaRetornos(_, _)
SumaRetornos(S, fecha) ==
    IF S = {} THEN Num(0)
    ELSE LET t == CHOOSE x \in S : TRUE
         IN  RAdd(RetornoRealizado(t, fecha), SumaRetornos(S \ {t}, fecha))

\* The equal-weighted mean of the returns of the held tickers that have
\* one, 0 when none has.
MediaDefinidos(posiciones, fecha) ==
    LET D == {t \in posiciones : RetornoDefinido(t, fecha)}
    IN  IF D = {} THEN Num(0)
        ELSE RDiv(SumaRetornos(D, fecha), Num(Cardinality(D)))

\* C11: a rebalanced month t appends to the portfolio NAV its last value
\* times 1 + r, r being the equal-weighted mean of the (t, t+1] returns of
\* the instruments held after the rebalance whose return at t+1 is defined,
\* and 0 when none of them has one.
C11_ForwardReturn ==
    [][fechas_validas' # fechas_validas =>
          portfolio_value' =
             Append(portfolio_value,
                    RMul(Last(portfolio_value),
                         RAdd(Num(1), MediaDefinidos(posiciones_actuales',
                                                     Last(fechas_validas')))))]_vars

\* A month was rebalanced into holdings of which one has no return at the
\* next month and another has one that is not 0, and the NAV has moved.
C11_Witness ==
    /\ pc = "sim"
    /\ Rebalanceado
    /\ Last(fechas_validas) = FechaActual + 1
    /\ \E h \in posiciones_actuales : ~RetornoDefinido(h, FechaActual + 1)
    /\ \E g \in posiciones_actuales :
          /\ RetornoDefinido(g, FechaActual + 1)
          /\ RetornoRealizado(g, FechaActual + 1) # Num(0)
    /\ Last(portfolio_value) # portfolio_value[Len(portfolio_value) - 1]

\* C12 (as claimed): with the benchmark available ejecutar_backtest ends by
\* returning None or its metrics and never in an unhandled error, also when
\* exactly one month was rebalanced.
C12_NoUnhandledError ==
    BENCHMARK \in DOMAIN datos =>
        /\ pc # "error"
        /\ excepcion = "none"
        /\ (pc = "sim" /\ ~HayMes) => ENABLED (SinFechas \/ Terminar)
        /\ (pc = "done" /\ Len(fechas_validas) = 1) => resultado.tipo = "metricas"

====
